---------------------------- MODULE Spec2Model ----------------------------
(***************************************************************************)
(* A model of rocketpy/motors/LiquidMotor.py: the Tank fill partition, the  *)
(* lazily computed quantities of MassFlowRateBasedTank, the construction of *)
(* the tank variants, and the LiquidMotor aggregation methods; and of       *)
(* rocketpy/motors/HybridMotor.py: the constructor of HybridMotor with the  *)
(* grain burnback it integrates.                                            *)
(*                                                                          *)
(* Units.  Lengths are integers.  A volume is an integer number of ticks,   *)
(* one tick being pi/24 of a cubic length unit, so that a cylinder of       *)
(* diameter d and height h holds 6*d*d*h ticks and a hemisphere of diameter *)
(* d holds 2*d*d*d ticks.  A density is the mass of two ticks, so a mass m  *)
(* of density rho occupies 2*m/rho ticks.  Time is the grid 0..MaxTime with *)
(* unit step; a Function sampled on 0..n is a TLA+ function on 0..n.        *)
(***************************************************************************)
EXTENDS Integers, Sequences, FiniteSets, TLC

\* ------------------------------------------------------------- bounds
MaxTime == 4

\* ------------------------------------------------------- input domains
Diameters == {1, 2}
Heights == {1}
CapKinds == {"flat", "spherical"}
Densities == {1, 2}
InitialLiquidMasses == {2, 4}
InitialGasMasses == {1}
FlowValues == {0, 1}
OutFlowValues == {0, 2}
\* A tabulated flow curve lasts until its tmax; a constant one never ends.
FlowEnds == {2, MaxTime + 1}
BurnOutTimes == {MaxTime - 1, MaxTime}
Times == 0..MaxTime

\* --------------------------------------------------- Function (TimeSeries)
\* A flow-rate input Function tabulated on [0, tmax] with "zero" extrapolation.
\* Its value at grid time t stands for the rate over [t, t + 1): `value` while
\* the curve lasts, 0 from tmax on.
FunctionValue(f, t) == IF t < f.tmax THEN f.value ELSE 0

\* Pointwise algebra on the grid.
FunctionSub(a, b) == [t \in Times |-> a[t] - b[t]]

FunctionAdd(a, b) == [t \in DOMAIN a |-> a[t] + b[t]]

\* liquid_mass / density, in ticks.
FunctionDivDensity(a, rho) == [t \in DOMAIN a |-> (2 * a[t]) \div rho]

OnGrid(f) == [t \in Times |-> FunctionValue(f, t)]

LastTime(f) == CHOOSE n \in DOMAIN f : \A k \in DOMAIN f : k <= n

\* getValueOpt with "constant" extrapolation: beyond the last sample the last
\* sample is held.
getValueOpt(f, t) == IF t \in DOMAIN f THEN f[t] ELSE f[LastTime(f)]

\* ------------------------------------------------------------ segments
\* Disk, Hemisphere, Cylinder: the volume of each segment, in ticks.
CapVolume(kind, d) == IF kind = "flat" THEN 0 ELSE 2 * d * d * d

CylinderVolume(d, h) == 6 * d * d * h

\* setTankGeometry: the capacities of [bottomCap, cylinder, upperCap].
setTankGeometry(tk) ==
  [bottomCap |-> CapVolume(tk.bottomCap, tk.diameter),
   cylinder  |-> CylinderVolume(tk.diameter, tk.height),
   upperCap  |-> CapVolume(tk.upperCap, tk.diameter)]

Capacity(vol) == vol.bottomCap + vol.cylinder + vol.upperCap

\* FillSegments with the cylinder branch storing V itself, the volume of the
\* bottom cap not taken off.
FillSegmentsNoSubtract(V, vol, old) ==
  IF V < vol.bottomCap
  THEN [outcome |-> "ok",
        filled |-> [bottomCap |-> V, cylinder |-> 0, upperCap |-> 0]]
  ELSE IF V <= vol.bottomCap + vol.cylinder
  THEN [outcome |-> "ok",
        filled |-> [bottomCap |-> vol.bottomCap,
                    cylinder |-> V,
                    upperCap |-> 0]]
  ELSE IF V <= vol.bottomCap + vol.cylinder + vol.upperCap
  THEN [outcome |-> "ok",
        filled |-> [bottomCap |-> vol.bottomCap,
                    cylinder |-> vol.cylinder,
                    upperCap |-> V - (vol.bottomCap + vol.cylinder)]]
  ELSE [outcome |-> "ValueError", filled |-> old]

\* FillSegments with the last branch clamping to a full tank, nothing raised.
FillSegmentsClamped(V, vol, old) ==
  IF V < vol.bottomCap
  THEN [outcome |-> "ok",
        filled |-> [bottomCap |-> V, cylinder |-> 0, upperCap |-> 0]]
  ELSE IF V <= vol.bottomCap + vol.cylinder
  THEN [outcome |-> "ok",
        filled |-> [bottomCap |-> vol.bottomCap,
                    cylinder |-> V - vol.bottomCap,
                    upperCap |-> 0]]
  ELSE [outcome |-> "ok",
        filled |-> [bottomCap |-> vol.bottomCap,
                    cylinder |-> vol.cylinder,
                    upperCap |-> IF V <= Capacity(vol)
                                 THEN V - (vol.bottomCap + vol.cylinder)
                                 ELSE vol.upperCap]]

\* FillSegments with the last branch filling the three segments to the brim
\* before it raises.
FillSegmentsWritesThenRaises(V, vol, old) ==
  IF V < vol.bottomCap
  THEN [outcome |-> "ok",
        filled |-> [bottomCap |-> V, cylinder |-> 0, upperCap |-> 0]]
  ELSE IF V <= vol.bottomCap + vol.cylinder
  THEN [outcome |-> "ok",
        filled |-> [bottomCap |-> vol.bottomCap,
                    cylinder |-> V - vol.bottomCap,
                    upperCap |-> 0]]
  ELSE IF V <= vol.bottomCap + vol.cylinder + vol.upperCap
  THEN [outcome |-> "ok",
        filled |-> [bottomCap |-> vol.bottomCap,
                    cylinder |-> vol.cylinder,
                    upperCap |-> V - (vol.bottomCap + vol.cylinder)]]
  ELSE [outcome |-> "ValueError", filled |-> vol]

\* FillSegments with the cylinder branch leaving the upper cap as the call
\* before left it.
FillSegmentsKeepsUpperCap(V, vol, old) ==
  IF V < vol.bottomCap
  THEN [outcome |-> "ok",
        filled |-> [bottomCap |-> V, cylinder |-> 0, upperCap |-> 0]]
  ELSE IF V <= vol.bottomCap + vol.cylinder
  THEN [outcome |-> "ok",
        filled |-> [bottomCap |-> vol.bottomCap,
                    cylinder |-> V - vol.bottomCap,
                    upperCap |-> old.upperCap]]
  ELSE IF V <= vol.bottomCap + vol.cylinder + vol.upperCap
  THEN [outcome |-> "ok",
        filled |-> [bottomCap |-> vol.bottomCap,
                    cylinder |-> vol.cylinder,
                    upperCap |-> V - (vol.bottomCap + vol.cylinder)]]
  ELSE [outcome |-> "ValueError", filled |-> old]

\* The branches of setTankFilling on the liquid volume V read at line 90:
\* the outcome and the filled volumes the three segments are left with.
FillSegments(V, vol, old) ==
  IF V < vol.bottomCap
  THEN [outcome |-> "ok",
        filled |-> [bottomCap |-> V, cylinder |-> 0, upperCap |-> 0]]
  ELSE IF V <= vol.bottomCap + vol.cylinder
  THEN [outcome |-> "ok",
        filled |-> [bottomCap |-> vol.bottomCap,
                    cylinder |-> V - vol.bottomCap,
                    upperCap |-> 0]]
  ELSE IF V <= vol.bottomCap + vol.cylinder + vol.upperCap
  THEN [outcome |-> "ok",
        filled |-> [bottomCap |-> vol.bottomCap,
                    cylinder |-> vol.cylinder,
                    upperCap |-> V - (vol.bottomCap + vol.cylinder)]]
  ELSE [outcome |-> "ValueError", filled |-> old]

\* ------------------------------------------- MassFlowRateBasedTank
\* The instance attributes the cached properties bind.  `bound` is the set of
\* attribute names present on the instance, `fn` their values (<<>> while
\* unbound), `solves` the number of calls of integrate.solve_ivp so far.
NoFunction == <<>>

NewObject ==
  [bound  |-> {},
   fn     |-> [liquid_net_mass_flow_rate |-> NoFunction,
               gas_net_mass_flow_rate    |-> NoFunction,
               netMassFlowRate           |-> NoFunction,
               liquid_mass               |-> NoFunction,
               gas_mass                  |-> NoFunction,
               mass                      |-> NoFunction,
               liquidVolume              |-> NoFunction],
   solves |-> 0]

\* netMassFlowRateBody with the gas outflow added instead of subtracted.
netMassFlowRateBodyGasAdded(tk) ==
  LET liquid == FunctionSub(OnGrid(tk.liquid_mass_flow_rate_in),
                            OnGrid(tk.liquid_mass_flow_rate_out))
      gas    == FunctionAdd(OnGrid(tk.gas_mass_flow_rate_in),
                            OnGrid(tk.gas_mass_flow_rate_out))
  IN [liquid_net_mass_flow_rate |-> liquid,
      gas_net_mass_flow_rate    |-> gas,
      netMassFlowRate           |-> FunctionAdd(liquid, gas)]

\* The body of the cached property netMassFlowRate.
netMassFlowRateBody(tk) ==
  LET liquid == FunctionSub(OnGrid(tk.liquid_mass_flow_rate_in),
                            OnGrid(tk.liquid_mass_flow_rate_out))
      gas    == FunctionSub(OnGrid(tk.gas_mass_flow_rate_in),
                            OnGrid(tk.gas_mass_flow_rate_out))
  IN [liquid_net_mass_flow_rate |-> liquid,
      gas_net_mass_flow_rate    |-> gas,
      netMassFlowRate           |-> FunctionAdd(liquid, gas)]

\* An access of tank.netMassFlowRate: functools.cached_property runs the body
\* once and afterwards returns the value stored on the instance.
netMassFlowRate(o, tk) ==
  IF "netMassFlowRate" \in o.bound
  THEN [outcome |-> "ok", obj |-> o]
  ELSE LET r == netMassFlowRateBody(tk)
       IN [outcome |-> "ok",
           obj |-> [o EXCEPT
             !.bound = @ \cup {"liquid_net_mass_flow_rate",
                               "gas_net_mass_flow_rate", "netMassFlowRate"},
             !.fn.liquid_net_mass_flow_rate = r.liquid_net_mass_flow_rate,
             !.fn.gas_net_mass_flow_rate = r.gas_net_mass_flow_rate,
             !.fn.netMassFlowRate = r.netMassFlowRate]]

\* y[0] / self.initial_liquid_mass > 0.95, for the positive initial liquid
\* masses of InitialLiquidMasses.
StopRatioPercent == 95

RatioAbove(y, m0) == 100 * y > StopRatioPercent * m0

\* stopping_criteria(t, y) once netMassFlowRate is available.
stopping_criteria(t, y, m0, net) ==
  IF RatioAbove(y, m0) THEN -1 ELSE net[t]

\* solve_ivp's find_active_events for an event of direction 0.
ActiveEvent(g, gNew) == (g <= 0 /\ gNew >= 0) \/ (g >= 0 /\ gNew <= 0)

\* The right-hand side of the ODE (the lambda of lines 403-406).
OdeRhs(t, lnet, gnet) == <<lnet[t], gnet[t]>>

\* solve_ivp on the unit grid: one step per grid time, the event function
\* evaluated after each step, the run ended by the terminal event or at
\* burn_out_time.  Returns the samples of y[0] and y[1], index k being time k-1.
RECURSIVE Steps(_, _, _, _, _, _, _, _, _, _)
Steps(t, yl, yg, g, accL, accG, tk, lnet, gnet, net) ==
  IF t >= tk.burn_out_time
  THEN [liquid |-> accL, gas |-> accG]
  ELSE LET dy   == OdeRhs(t, lnet, gnet)
           yl1  == yl + dy[1]
           yg1  == yg + dy[2]
           gNew == stopping_criteria(t + 1, yl1, tk.initial_liquid_mass, net)
           aL   == Append(accL, yl1)
           aG   == Append(accG, yg1)
       IN IF ActiveEvent(g, gNew)
          THEN [liquid |-> aL, gas |-> aG]
          ELSE Steps(t + 1, yl1, yg1, gNew, aL, aG, tk, lnet, gnet, net)

solve_ivp(tk, lnet, gnet, net) ==
  LET m0 == tk.initial_liquid_mass
      g0 == tk.initial_gas_mass
  IN Steps(0, m0, g0, stopping_criteria(0, m0, m0, net),
           <<m0>>, <<g0>>, tk, lnet, gnet, net)

\* Function(np.column_stack((sol.t, sol.y[i]))): the samples as a Function.
FunctionOfSamples(samples) == [t \in 0..(Len(samples) - 1) |-> samples[t + 1]]

\* TotalMass with the gas mass left out.
TotalMassLiquidOnly(liquid, gas) == liquid

\* The sum the property mass returns (line 427).
TotalMass(liquid, gas) == FunctionAdd(liquid, gas)

\* An access of tank.mass.  Uncached, the body calls solve_ivp.  The event
\* function is evaluated at t = 0 first and reads self.netMassFlowRate only
\* when the ratio test fails; the first step then calls the lambda, which
\* reads self.liquid_net_mass_flow_rate: an AttributeError while no access of
\* netMassFlowRate has bound it.  An exception leaves nothing cached.
mass(o, tk) ==
  IF "mass" \in o.bound
  THEN [outcome |-> "ok", obj |-> o]
  ELSE LET m0 == tk.initial_liquid_mass
           o1 == IF RatioAbove(m0, m0) THEN o ELSE netMassFlowRate(o, tk).obj
           o2 == [o1 EXCEPT !.solves = @ + 1]
       IN IF "liquid_net_mass_flow_rate" \notin o2.bound
          THEN [outcome |-> "AttributeError", obj |-> o2]
          ELSE LET sol == solve_ivp(tk, o2.fn.liquid_net_mass_flow_rate,
                                    o2.fn.gas_net_mass_flow_rate,
                                    o2.fn.netMassFlowRate)
                   lm  == FunctionOfSamples(sol.liquid)
                   gm  == FunctionOfSamples(sol.gas)
               IN [outcome |-> "ok",
                   obj |-> [o2 EXCEPT
                     !.bound = @ \cup {"liquid_mass", "gas_mass", "mass"},
                     !.fn.liquid_mass = lm,
                     !.fn.gas_mass = gm,
                     !.fn.mass = TotalMass(lm, gm)]]

\* An access of tank.liquidVolume: the body reads self.liquid_mass, which
\* only the body of mass binds.
liquidVolume(o, tk) ==
  IF "liquidVolume" \in o.bound
  THEN [outcome |-> "ok", obj |-> o]
  ELSE IF "liquid_mass" \notin o.bound
  THEN [outcome |-> "AttributeError", obj |-> o]
  ELSE [outcome |-> "ok",
        obj |-> [o EXCEPT
          !.bound = @ \cup {"liquidVolume"},
          !.fn.liquidVolume =
             FunctionDivDensity(o.fn.liquid_mass, tk.density)]]

\* ------------------------------------------------ Tank queries at time t
\* setTankFilling(t): line 90 reads self.liquidVolume (the cached property)
\* and its value at t, then the branches store the partition or raise.
setTankFilling(o, tk, fl, t) ==
  LET lv == liquidVolume(o, tk)
  IN IF lv.outcome # "ok"
     THEN [outcome |-> lv.outcome, obj |-> lv.obj, filled |-> fl, volume |-> 0]
     ELSE LET V == getValueOpt(lv.obj.fn.liquidVolume, t)
              r == FillSegments(V, setTankGeometry(tk), fl)
          IN [outcome |-> r.outcome, obj |-> lv.obj,
              filled |-> r.filled, volume |-> V]

\* liquid.density * filled_volume, doubled: F ticks of density rho weigh
\* rho * F / 2.
SegmentMass2(rho, F) == rho * F

\* Division of floats by a zero float: ZeroDivisionError for Python floats, nan
\* for numpy floats; which of the two the Function class hands out is not
\* fixed by this file.
ZeroDivisionOutcomes == {"ZeroDivisionError", "nan"}

\* centerOfMassWeights with the cylinder weighted by its whole volume, not by
\* the volume the liquid fills.
centerOfMassWeightsWholeCylinder(tk, fl) ==
  [bottomCapMass |-> SegmentMass2(tk.density, fl.bottomCap),
   cylinderMass  |-> SegmentMass2(tk.density, setTankGeometry(tk).cylinder),
   upperCapMass  |-> SegmentMass2(tk.density, fl.upperCap)]

\* centerOfMass(t), lines 182-194: the three liquid masses weighting the
\* filled centroids of the segments.
centerOfMassWeights(tk, fl) ==
  [bottomCapMass |-> SegmentMass2(tk.density, fl.bottomCap),
   cylinderMass  |-> SegmentMass2(tk.density, fl.cylinder),
   upperCapMass  |-> SegmentMass2(tk.density, fl.upperCap)]

\* The quotient of lines 188-192.  The filled centroids of the segments are
\* kept symbolic: the numerator is the linear form with one coefficient per
\* segment centroid, the denominator the sum of the three masses.
centerOfMassValue(w) ==
  [numerator   |-> [bottomCap |-> w.bottomCapMass,
                    cylinder  |-> w.cylinderMass,
                    upperCap  |-> w.upperCapMass],
   denominator |-> w.bottomCapMass + w.cylinderMass + w.upperCapMass]

\* Cylinder.filled_height = filled_volume / (pi r^2) = F / (6 d^2), as the
\* fraction <<numerator, denominator>>.
filled_height(tk, fl) == <<fl.cylinder, 6 * tk.diameter * tk.diameter>>

\* inertiaTensor(t), lines 213-223: inertiaI = cylinder_mass * (diameter**2 +
\* filled_height**2 / 12) as a fraction <<numerator, denominator>>, and
\* inertiaZ = 0.
inertiaTensorValue(tk, fl) ==
  LET h  == filled_height(tk, fl)
      m2 == SegmentMass2(tk.density, fl.cylinder)
      d  == tk.diameter
  IN [inertiaI |-> <<m2 * (d * d * 12 * h[2] * h[2] + h[1] * h[1]),
                     2 * 12 * h[2] * h[2]>>,
      inertiaZ |-> 0]

\* --------------------------------------------------- tank variants
TankVariants == {"MassFlowRateBasedTank", "UllageBasedTank", "MassBasedTank"}

\* The abstract methods of Tank (lines 114-166) a variant leaves abstract.
AbstractMethodsLeft(variant) ==
  IF variant = "MassFlowRateBasedTank"
  THEN {}
  ELSE {"mass", "netMassFlowRate", "liquidVolume"}

\* What each variant's __init__ hands to Tank.__init__(name, diameter, height,
\* gas, liquid, bottomCap, upperCap): the names are the variant's own
\* parameters, "flat" the default of Tank.__init__.
ForwardedToTank(variant) ==
  IF variant = "MassFlowRateBasedTank"
  THEN [gas |-> "gas", liquid |-> "liquid",
        bottomCap |-> "bottomCap", upperCap |-> "upperCap"]
  ELSE IF variant = "UllageBasedTank"
  THEN [gas |-> "endcap", liquid |-> "gas",
        bottomCap |-> "liquid", upperCap |-> "flat"]
  ELSE [gas |-> "bottomCap", liquid |-> "upperCap",
        bottomCap |-> "gas", upperCap |-> "liquid"]

\* The parameters of a variant that carry a cap kind (a key of capMap).
CapParameters == {"bottomCap", "upperCap", "endcap", "flat"}

\* Instantiating a variant: ABC refuses a class with abstract methods left
\* before __init__ runs; otherwise setTankGeometry calls capMap.get(cap)(...),
\* and capMap.get of anything but a cap kind is None.
Construct(variant) ==
  LET f == ForwardedToTank(variant)
  IN IF AbstractMethodsLeft(variant) # {}
     THEN "TypeError"
     ELSE IF f.bottomCap \notin CapParameters \/ f.upperCap \notin CapParameters
     THEN "TypeError"
     ELSE "ok"

\* ------------------------------------------------------- LiquidMotor
\* Line 29, super.__init__(): `super` without a call is the builtin type, and
\* its __init__ called with no argument raises TypeError.
SuperInit == "TypeError"

\* LiquidMotor.__init__ (lines 19-31): line 30 binds self.tanks only when
\* line 29 has returned.
LiquidMotorInit(m) ==
  IF SuperInit # "ok"
  THEN [outcome |-> SuperInit, motor |-> [m EXCEPT !.init = "raised"]]
  ELSE [outcome |-> "ok",
        motor |-> [m EXCEPT !.init = "done", !.tanksBound = TRUE,
                            !.tanks = <<>>]]

\* addTank (lines 56-57): self.tanks.append(...) reads the attribute tanks.
addTank(m, tankRef, position) ==
  IF ~m.tanksBound
  THEN [outcome |-> "AttributeError", motor |-> m]
  ELSE [outcome |-> "ok",
        motor |-> [m EXCEPT !.tanks =
                     Append(@, [tank |-> tankRef, position |-> position])]]

\* n copies of a Function added to the integer 0.
RECURSIVE SumOfCopies(_, _)
SumOfCopies(f, n) ==
  IF n = 0 THEN [t \in DOMAIN f |-> 0]
  ELSE FunctionAdd(SumOfCopies(f, n - 1), f)

\* evaluateMassFlowRate (lines 33-39): 0 plus tank.netMassFlowRate of every
\* entry; every entry refers to the one tank instance of this model.
evaluateMassFlowRate(m, o, tk) ==
  IF ~m.tanksBound
  THEN [outcome |-> "AttributeError", obj |-> o, value |-> 0]
  ELSE IF m.tanks = <<>>
  THEN [outcome |-> "ok", obj |-> o, value |-> 0]
  ELSE LET r == netMassFlowRate(o, tk)
       IN [outcome |-> "ok", obj |-> r.obj,
           value |-> SumOfCopies(r.obj.fn.netMassFlowRate, Len(m.tanks))]

\* evaluateCenterOfMass (lines 41-51).  With no entry the result is the
\* integer division 0 / 0.  With an entry, line 48 reads tank.mass and line 49
\* adds the position to tank.centerOfMass, which is a bound method (line 168),
\* not a number.
evaluateCenterOfMass(m, o, tk) ==
  IF ~m.tanksBound
  THEN [outcome |-> "AttributeError", obj |-> o, value |-> 0]
  ELSE IF m.tanks = <<>>
  THEN [outcome |-> "ZeroDivisionError", obj |-> o, value |-> 0]
  ELSE LET r == mass(o, tk)
       IN IF r.outcome # "ok"
          THEN [outcome |-> r.outcome, obj |-> r.obj, value |-> 0]
          ELSE [outcome |-> "TypeError", obj |-> r.obj, value |-> 0]

\* evaluateInertiaTensor (lines 53-54): the body is `pass`.
evaluateInertiaTensor(m) == [outcome |-> "ok", value |-> "None"]

\* ------------------------------------------------------- HybridMotor
(***************************************************************************)
(* Units.  Grain lengths are integers; a grain volume is counted in units   *)
(* of pi, so that a grain of outer radius rO, inner radius r and height h   *)
(* holds (rO^2 - r^2) * h, and masses are counted in units of pi as well,   *)
(* which turns density * pi * x of the source into grainDensity * x.  The   *)
(* thrust curve is sampled on the grid 0..MaxGrid, the sample at t standing *)
(* for the value over [t, t + 1).  Quotients are truncated to integers.     *)
(* The names Motor, Function, np and integrate, which HybridMotor.py uses   *)
(* without importing them, are taken to be the library objects.             *)
(***************************************************************************)
MaxGrid == 4

Grid == 0..MaxGrid

GrainNumbers == {1, 2}
GrainDensities == {1, 2}
GrainOuterRadii == {0, 100}
GrainInitialInnerRadii == {0, 40, 100, 120}
GrainInitialHeights == {200}
OxidizerInitialVolumes == {0, 1500000}
OxidizerDensities == {2}
ThrustCurves == { [t \in Grid |-> 2],
                  [t \in Grid |-> t + 1],
                  [t \in Grid |-> IF t < 2 THEN 3 ELSE 0] }
Orientations == {"nozzleToCombustionChamber", "combustionChamberToNozzle"}

Abs(x) == IF x < 0 THEN -x ELSE x

\* a / b for b # 0, truncated towards zero.
Quot(a, b) ==
  LET q == Abs(a) \div Abs(b)
  IN IF (a < 0) = (b < 0) THEN q ELSE -q

\* A float: a finite value, or inf / nan once a division by zero has occurred.
Finite(v) == [finite |-> TRUE, v |-> v]

NotFinite == [finite |-> FALSE, v |-> 0]

\* Motor.__init__ as HybridMotor calls it (lines 214-222): the thrust curve,
\* its total impulse, and the orientation, for which no argument is passed.
DefaultOrientation == "nozzleToCombustionChamber"

RECURSIVE SumOver(_, _)
SumOver(f, n) == IF n = 0 THEN 0 ELSE SumOver(f, n - 1) + f[n - 1]

MotorBaseInit(thrustSource) ==
  [thrust |-> thrustSource,
   totalImpulse |-> SumOver(thrustSource, MaxGrid),
   coordinateSystemOrientation |-> DefaultOrientation]

\* Lines 252-261.
grainInitialVolume(a) ==
  a.grainInitialHeight
    * (a.grainOuterRadius * a.grainOuterRadius
         - a.grainInitialInnerRadius * a.grainInitialInnerRadius)

propellantInitialMass(a) ==
  a.grainNumber * (a.grainDensity * grainInitialVolume(a))
    + a.oxidizerInitialVolume * a.oxidizerDensity

\* The attributes that hold a value once line 261 is reached, and those that
\* hold the None placeholder of lines 242-248.
AttributesAfterInit ==
  {"thrust", "totalImpulse", "throatArea", "interpolate",
   "propellantInitialMass"}

NonePlaceholders ==
  {"zCM", "oxidizerInitialMass", "grainInnerRadius", "grainHeight",
   "burnArea", "burnRate", "Kn"}

NewHybrid(a) ==
  LET m == MotorBaseInit(a.thrustSource)
  IN [state |-> "new",
      set   |-> AttributesAfterInit,
      order |-> <<>>,
      thrust |-> m.thrust,
      totalImpulse |-> m.totalImpulse,
      coordinateSystemOrientation |-> m.coordinateSystemOrientation,
      massDot |-> NoFunction, mass |-> NoFunction,
      grainInnerRadius |-> NoFunction, grainHeight |-> NoFunction,
      burnArea |-> NoFunction, Kn |-> NoFunction, burnRate |-> NoFunction,
      inertiaI |-> NoFunction, inertiaZ |-> NoFunction,
      zCM |-> NoFunction]

\* evaluateMassDot (lines 305-307): thrust / (-exhaustVelocity), with
\* exhaustVelocity = totalImpulse / propellantInitialMass (line 285).
evaluateMassDot(h, a) ==
  [t \in Grid |-> Quot(-(h.thrust[t] * propellantInitialMass(a)),
                       h.totalImpulse)]

\* Motor.evaluateMass: the propellant mass left, the initial mass plus the
\* integral of massDot.
evaluateMass(h, a) ==
  [t \in Grid |-> propellantInitialMass(a) + SumOver(h.massDot, t)]

\* rO^2 - rI^2 + rI * h, the bracket of lines 369 and 371.
BurnBracket(a, r, hh) ==
  a.grainOuterRadius * a.grainOuterRadius - r * r + r * hh

\* geometryDot with the two signs exchanged.
geometryDotReversed(a, massDot, r, hh, t) ==
  LET D == BurnBracket(a, r, hh)
  IN IF D = 0 THEN <<NotFinite, NotFinite>>
     ELSE <<Finite(Quot(massDot[t], 2 * a.grainNumber * a.grainDensity * D)),
            Finite(Quot(-massDot[t], a.grainNumber * a.grainDensity * D))>>

\* geometryDotRates with the height changing at half its rate.
geometryDotRatesHalfHeight(a, g, r, hh) ==
  LET D == BurnBracket(a, r, hh)
  IN [rIDot |-> [num |-> -g, den |-> 2 * a.grainNumber * a.grainDensity * D],
      hDot  |-> [num |-> g, den |-> 2 * a.grainNumber * a.grainDensity * D]]

\* The two rates of lines 366-371 for the assembly mass flow rate g, as exact
\* fractions: rIDot = -0.5 * (g / grainNumber) / (density * pi * D) and
\* hDot = 1.0 * (g / grainNumber) / (density * pi * D).
geometryDotRates(a, g, r, hh) ==
  LET D == BurnBracket(a, r, hh)
  IN [rIDot |-> [num |-> -g, den |-> 2 * a.grainNumber * a.grainDensity * D],
      hDot  |-> [num |-> g, den |-> a.grainNumber * a.grainDensity * D]]

\* geometryDot (lines 365-372) at y = (r, hh) and grid time t: the division
\* is one of numpy floats, which yields inf or nan for a zero divisor.
geometryDot(a, massDot, r, hh, t) ==
  LET f == geometryDotRates(a, massDot[t], r, hh)
  IN IF f.rIDot.den = 0 THEN <<NotFinite, NotFinite>>
     ELSE <<Finite(Quot(f.rIDot.num, f.rIDot.den)),
            Finite(Quot(f.hDot.num, f.hDot.den))>>

\* Whether the grain has burnt through.
BurntThrough(a, r, hh) == r >= a.grainOuterRadius \/ hh <= 0

RECURSIVE GeometryStepsUntilBurnout(_, _, _, _, _, _, _)
\* odeint stopping at the first grid time at which the grain has burnt through.
GeometryStepsUntilBurnout(t, r, hh, accR, accH, a, massDot) ==
  IF t >= MaxGrid \/ ~r.finite \/ ~hh.finite
       \/ BurntThrough(a, r.v, hh.v)
  THEN [r |-> accR, h |-> accH]
  ELSE LET dy == geometryDot(a, massDot, r.v, hh.v, t)
           r1 == IF dy[1].finite THEN Finite(r.v + dy[1].v) ELSE NotFinite
           h1 == IF dy[2].finite THEN Finite(hh.v + dy[2].v) ELSE NotFinite
       IN GeometryStepsUntilBurnout(t + 1, r1, h1, Append(accR, r1),
                                    Append(accH, h1), a, massDot)

RECURSIVE GeometrySteps(_, _, _, _, _, _, _)
\* integrate.odeint(geometryDot, y0, t) on the unit grid (line 375): one row
\* per grid time, whatever the values; once a value is not finite those after
\* it are not either.
GeometrySteps(t, r, hh, accR, accH, a, massDot) ==
  IF t >= MaxGrid
  THEN [r |-> accR, h |-> accH]
  ELSE LET dy == IF r.finite /\ hh.finite
                 THEN geometryDot(a, massDot, r.v, hh.v, t)
                 ELSE <<NotFinite, NotFinite>>
           r1 == IF dy[1].finite THEN Finite(r.v + dy[1].v) ELSE NotFinite
           h1 == IF dy[2].finite THEN Finite(hh.v + dy[2].v) ELSE NotFinite
       IN GeometrySteps(t + 1, r1, h1, Append(accR, r1), Append(accH, h1),
                        a, massDot)

\* evaluateGeometry, lines 355-391: the two Functions over the samples of
\* odeint, index k of a sample sequence being grid time k - 1.
evaluateGeometry(h, a) ==
  LET r0  == Finite(a.grainInitialInnerRadius)
      h0  == Finite(a.grainInitialHeight)
      sol == GeometrySteps(0, r0, h0, <<r0>>, <<h0>>, a, h.massDot)
  IN [grainInnerRadius |-> FunctionOfSamples(sol.r),
      grainHeight      |-> FunctionOfSamples(sol.h)]

\* evaluateBurnArea (lines 414-423), in units of 2 pi.
evaluateBurnArea(h, a) ==
  [t \in DOMAIN h.grainInnerRadius |->
     IF h.grainInnerRadius[t].finite /\ h.grainHeight[t].finite
     THEN Finite(BurnBracket(a, h.grainInnerRadius[t].v, h.grainHeight[t].v)
                   * a.grainNumber)
     ELSE NotFinite]

\* evaluateKn (lines 446-460): the pairs (inner radius, burn area), the
\* division by the throat area left symbolic.
evaluateKn(h, a) ==
  [t \in DOMAIN h.burnArea |-> <<h.grainInnerRadius[t], h.burnArea[t]>>]

\* evaluateBurnRate (line 441): -massDot / (burnArea * grainDensity), as the
\* pair of numerator and denominator.
evaluateBurnRate(h, a) ==
  [t \in DOMAIN h.burnArea |->
     IF h.burnArea[t].finite
     THEN Finite(<<-h.massDot[t], h.burnArea[t].v * a.grainDensity>>)
     ELSE NotFinite]

\* evaluateInertia (lines 486-534): inertiaI = mass * shapeI / 12 and
\* inertiaZ = mass * shapeZ / 2, the products left unevaluated.
evaluateInertia(h, a) ==
  LET rO == a.grainOuterRadius
      N  == a.grainNumber
      sp == a.grainInitialHeight + a.grainSeparation
      val(t, shape) == [mass |-> h.mass[t], burnRate |-> h.burnRate[t],
                        shape |-> shape]
  IN [inertiaI |->
        [t \in DOMAIN h.grainInnerRadius |->
           IF h.grainInnerRadius[t].finite /\ h.grainHeight[t].finite
           THEN Finite(val(t,
                  3 * (rO * rO + h.grainInnerRadius[t].v
                                   * h.grainInnerRadius[t].v)
                    + h.grainHeight[t].v * h.grainHeight[t].v
                    + sp * sp * (N * N - 1)))
           ELSE NotFinite],
      inertiaZ |->
        [t \in DOMAIN h.grainInnerRadius |->
           IF h.grainInnerRadius[t].finite
           THEN Finite(val(t, rO * rO + h.grainInnerRadius[t].v
                                          * h.grainInnerRadius[t].v))
           ELSE NotFinite]]

\* evaluateCenterOfMass (lines 328-330).
hybridEvaluateCenterOfMass(h, a) == 0

\* The computation steps in the order the constructor runs them: lines
\* 263-267, with the three calls of lines 394-396 at the end of
\* evaluateGeometry.
HybridInitStepsInertiaFirst ==
  <<"evaluateMassDot", "evaluateMass", "evaluateInertia", "evaluateGeometry",
    "evaluateBurnArea", "evaluateKn", "evaluateBurnRate",
    "evaluateCenterOfMass">>

HybridInitSteps ==
  <<"evaluateMassDot", "evaluateMass", "evaluateGeometry",
    "evaluateBurnArea", "evaluateKn", "evaluateBurnRate",
    "evaluateInertia", "evaluateCenterOfMass">>

\* The computed attributes each step reads.
StepReads(step) ==
  CASE step = "evaluateMassDot" ->
         {"thrust", "totalImpulse", "propellantInitialMass"}
    [] step = "evaluateMass" -> {"massDot", "propellantInitialMass"}
    [] step = "evaluateGeometry" -> {"massDot", "interpolate"}
    [] step = "evaluateBurnArea" -> {"grainInnerRadius", "grainHeight"}
    [] step = "evaluateKn" ->
         {"grainInnerRadius", "burnArea", "throatArea", "interpolate"}
    [] step = "evaluateBurnRate" -> {"massDot", "burnArea"}
    [] step = "evaluateInertia" ->
         {"mass", "massDot", "grainInnerRadius", "grainHeight", "burnRate"}
    [] step = "evaluateCenterOfMass" -> {}

\* The attributes a step binds, with their values.
ApplyStep(step, h, a) ==
  CASE step = "evaluateMassDot" ->
         [h EXCEPT !.massDot = evaluateMassDot(h, a),
                   !.set = @ \cup {"massDot"}]
    [] step = "evaluateMass" ->
         [h EXCEPT !.mass = evaluateMass(h, a), !.set = @ \cup {"mass"}]
    [] step = "evaluateGeometry" ->
         LET g == evaluateGeometry(h, a)
         IN [h EXCEPT !.grainInnerRadius = g.grainInnerRadius,
                      !.grainHeight = g.grainHeight,
                      !.set = @ \cup {"grainInnerRadius", "grainHeight"}]
    [] step = "evaluateBurnArea" ->
         [h EXCEPT !.burnArea = evaluateBurnArea(h, a),
                   !.set = @ \cup {"burnArea"}]
    [] step = "evaluateKn" ->
         [h EXCEPT !.Kn = evaluateKn(h, a), !.set = @ \cup {"Kn"}]
    [] step = "evaluateBurnRate" ->
         [h EXCEPT !.burnRate = evaluateBurnRate(h, a),
                   !.set = @ \cup {"burnRate"}]
    [] step = "evaluateInertia" ->
         LET i == evaluateInertia(h, a)
         IN [h EXCEPT !.inertiaI = i.inertiaI, !.inertiaZ = i.inertiaZ,
                      !.set = @ \cup {"inertiaI", "inertiaIDot", "inertiaZ",
                                      "inertiaZDot"}]
    [] step = "evaluateCenterOfMass" ->
         [h EXCEPT !.zCM = hybridEvaluateCenterOfMass(h, a),
                   !.set = @ \cup {"zCM"}]

\* Running the steps in order.  A step that reads an attribute still holding
\* None fails with TypeError, one that reads an attribute never bound with
\* AttributeError; exhaustVelocity divides by propellantInitialMass, and
\* `division` is what a float division by zero does (ZeroDivisionOutcomes).
RECURSIVE RunSteps(_, _, _, _)
RunSteps(h, a, steps, division) ==
  IF steps = <<>>
  THEN [outcome |-> "ok", h |-> h]
  ELSE LET step    == Head(steps)
           missing == StepReads(step) \ h.set
           h1      == [h EXCEPT !.order = Append(@, step)]
       IN IF missing # {}
          THEN [outcome |-> IF missing \cap NonePlaceholders # {}
                            THEN "TypeError" ELSE "AttributeError",
                h |-> h1]
          ELSE IF /\ step = "evaluateMassDot"
                  /\ propellantInitialMass(a) = 0
                  /\ division = "ZeroDivisionError"
          THEN [outcome |-> "ZeroDivisionError", h |-> h1]
          ELSE RunSteps(ApplyStep(step, h1, a), a, Tail(steps), division)

\* HybridMotor.__init__ (lines 214-267).  No line looks at the sign or the
\* order of the radii and heights, and coordinateSystemOrientation is neither
\* passed to Motor.__init__ nor stored.
HybridMotorInit(a, division) ==
  LET r == RunSteps(NewHybrid(a), a, HybridInitSteps, division)
  IN [outcome |-> r.outcome,
      h |-> [r.h EXCEPT !.state = IF r.outcome = "ok" THEN "constructed"
                                  ELSE "raised"]]

\* hybrid.addTank(tank, position): HybridMotor.py defines no addTank and keeps
\* no tank, so the attribute lookup fails and nothing is recomputed.
hybridAddTank(h, tankRef, position) ==
  [outcome |-> "AttributeError", h |-> h]

\* ------------------------------------------------------------- state
VARIABLES
  tank,     \* the constructor arguments of the MassFlowRateBasedTank
  obj,      \* its instance attributes (NewObject after construction)
  filled,   \* filled_volume of bottomCap, cylinder, upperCap
  inertia,  \* self.inertiaI, self.inertiaZ once inertiaTensor has set them
  motor,    \* the LiquidMotor instance: whether self.tanks is bound, and it
  calls,    \* the (tank, position) pairs the caller has passed to addTank
  last,     \* the last call: operation, liquid volume read, outcome, value
  hybridArgs,  \* the arguments of HybridMotor.__init__
  hybrid       \* the attributes of the HybridMotor instance

vars == <<tank, obj, filled, inertia, motor, calls, last, hybridArgs, hybrid>>

\* ------------------------------------------------------------- bounds
MaxSolves == 2
MaxTanks == 2

Flow(v, e) == [value |-> v, tmax |-> e]

\* The arguments MassFlowRateBasedTank.__init__ stores (lines 291-327).
TankInputs ==
  { [diameter |-> d, height |-> h, bottomCap |-> bc, upperCap |-> uc,
     density |-> rho, initial_liquid_mass |-> m0, initial_gas_mass |-> g0,
     liquid_mass_flow_rate_in  |-> Flow(li, e),
     gas_mass_flow_rate_in     |-> Flow(0, e),
     liquid_mass_flow_rate_out |-> Flow(lo, e),
     gas_mass_flow_rate_out    |-> Flow(go, e),
     burn_out_time |-> b] :
     d \in Diameters, h \in Heights, bc \in CapKinds, uc \in CapKinds,
     rho \in Densities, m0 \in InitialLiquidMasses, g0 \in InitialGasMasses,
     li \in FlowValues, lo \in OutFlowValues, go \in FlowValues,
     e \in FlowEnds, b \in BurnOutTimes }

NoCall == [op |-> "none", volume |-> 0, outcome |-> "ok", value |-> 0]

NoInertia == [inertiaI |-> <<0, 1>>, inertiaZ |-> 0, bound |-> FALSE]

NewMotor == [init |-> "pending", tanksBound |-> FALSE, tanks |-> <<>>]

\* The arguments of HybridMotor.__init__ (lines 98-122) the model varies;
\* grainSeparation keeps its default.
HybridInputs ==
  { [thrustSource |-> th, grainNumber |-> n, grainDensity |-> rho,
     grainOuterRadius |-> rO, grainInitialInnerRadius |-> r0,
     grainInitialHeight |-> h0, oxidizerInitialVolume |-> ov,
     oxidizerDensity |-> od, distanceGrainToTank |-> 50,
     grainSeparation |-> 0, coordinateSystemOrientation |-> c] :
     th \in ThrustCurves, n \in GrainNumbers, rho \in GrainDensities,
     rO \in GrainOuterRadii, r0 \in GrainInitialInnerRadii,
     h0 \in GrainInitialHeights, ov \in OxidizerInitialVolumes,
     od \in OxidizerDensities, c \in Orientations }

\* The arguments of the scenario of a grain of outer radius 100, inner radius
\* 40 and height 200 under a constant thrust.
ScenarioArgs ==
  [thrustSource |-> [t \in Grid |-> 2], grainNumber |-> 1,
   grainDensity |-> 1, grainOuterRadius |-> 100,
   grainInitialInnerRadius |-> 40, grainInitialHeight |-> 200,
   oxidizerInitialVolume |-> 0, oxidizerDensity |-> 2,
   distanceGrainToTank |-> 50, grainSeparation |-> 0,
   coordinateSystemOrientation |-> "nozzleToCombustionChamber"]

Init ==
  /\ tank \in TankInputs
  /\ obj = NewObject
  /\ filled = [bottomCap |-> 0, cylinder |-> 0, upperCap |-> 0]
  /\ inertia = NoInertia
  /\ motor = NewMotor
  /\ calls = <<>>
  /\ last = NoCall
  /\ hybridArgs = ScenarioArgs
  /\ hybrid = NewHybrid(ScenarioArgs)

\* ------------------------------------------------------- tank actions
AccessNetMassFlowRate ==
  LET r == netMassFlowRate(obj, tank)
  IN /\ obj' = r.obj
     /\ last' = [op |-> "netMassFlowRate", volume |-> 0, outcome |-> r.outcome,
                 value |-> r.obj.fn.netMassFlowRate]
     /\ UNCHANGED <<hybridArgs, hybrid, tank, filled, inertia, motor, calls>>

AccessMass ==
  /\ "mass" \in obj.bound \/ obj.solves < MaxSolves
  /\ LET r == mass(obj, tank)
     IN /\ obj' = r.obj
        /\ last' = [op |-> "mass", volume |-> 0, outcome |-> r.outcome,
                    value |-> r.obj.fn.mass]
  /\ UNCHANGED <<hybridArgs, hybrid, tank, filled, inertia, motor, calls>>

AccessLiquidVolume ==
  LET r == liquidVolume(obj, tank)
  IN /\ obj' = r.obj
     /\ last' = [op |-> "liquidVolume", volume |-> 0, outcome |-> r.outcome,
                 value |-> r.obj.fn.liquidVolume]
     /\ UNCHANGED <<hybridArgs, hybrid, tank, filled, inertia, motor, calls>>

SetTankFilling(t) ==
  LET r == setTankFilling(obj, tank, filled, t)
  IN /\ obj' = r.obj
     /\ filled' = r.filled
     /\ last' = [op |-> "setTankFilling", volume |-> r.volume,
                 outcome |-> r.outcome, value |-> 0]
     /\ UNCHANGED <<hybridArgs, hybrid, tank, inertia, motor, calls>>

CenterOfMass(t) ==
  LET r == setTankFilling(obj, tank, filled, t)
      w == centerOfMassWeights(tank, r.filled)
      zero == w.bottomCapMass + w.cylinderMass + w.upperCapMass = 0
  IN /\ obj' = r.obj
     /\ filled' = r.filled
     /\ \E z \in IF r.outcome = "ok" /\ zero
                 THEN ZeroDivisionOutcomes ELSE {r.outcome} :
          last' = [op |-> "centerOfMass", volume |-> r.volume, outcome |-> z,
                   value |-> IF r.outcome = "ok"
                             THEN centerOfMassValue(w) ELSE 0]
     /\ UNCHANGED <<hybridArgs, hybrid, tank, inertia, motor, calls>>

InertiaTensor(t) ==
  LET r == setTankFilling(obj, tank, filled, t)
      v == inertiaTensorValue(tank, r.filled)
  IN /\ obj' = r.obj
     /\ filled' = r.filled
     /\ inertia' = IF r.outcome = "ok"
                   THEN [inertiaI |-> v.inertiaI, inertiaZ |-> v.inertiaZ,
                         bound |-> TRUE]
                   ELSE inertia
     /\ last' = [op |-> "inertiaTensor", volume |-> r.volume,
                 outcome |-> r.outcome,
                 value |-> IF r.outcome = "ok" THEN v ELSE 0]
     /\ UNCHANGED <<hybridArgs, hybrid, tank, motor, calls>>

ConstructVariant(variant) ==
  /\ last' = [op |-> "construct", volume |-> 0,
              outcome |-> Construct(variant), value |-> variant]
  /\ UNCHANGED <<hybridArgs, hybrid, tank, obj, filled, inertia, motor, calls>>

Next ==
  \/ AccessNetMassFlowRate
  \/ AccessMass
  \/ AccessLiquidVolume
  \/ \E t \in Times : SetTankFilling(t)
  \/ \E t \in Times : CenterOfMass(t)
  \/ \E t \in Times : InertiaTensor(t)
  \/ \E variant \in TankVariants : ConstructVariant(variant)

Spec == Init /\ [][Next]_vars

\* ------------------------------------------------ LiquidMotor actions
Positions == {0, 1}

ConstructLiquidMotor ==
  /\ motor.init = "pending"
  /\ LET r == LiquidMotorInit(motor)
     IN /\ motor' = r.motor
        /\ last' = [op |-> "LiquidMotor", volume |-> 0, outcome |-> r.outcome,
                    value |-> 0]
  /\ UNCHANGED <<hybridArgs, hybrid, tank, obj, filled, inertia, calls>>

AddTank(position) ==
  /\ motor.init # "pending"
  /\ Len(calls) < MaxTanks
  /\ LET r == addTank(motor, "tank", position)
     IN /\ motor' = r.motor
        /\ last' = [op |-> "addTank", volume |-> 0, outcome |-> r.outcome,
                    value |-> position]
  /\ calls' = Append(calls, [tank |-> "tank", position |-> position])
  /\ UNCHANGED <<hybridArgs, hybrid, tank, obj, filled, inertia>>

EvaluateMassFlowRate ==
  /\ motor.init # "pending"
  /\ LET r == evaluateMassFlowRate(motor, obj, tank)
     IN /\ obj' = r.obj
        /\ last' = [op |-> "evaluateMassFlowRate", volume |-> 0,
                    outcome |-> r.outcome, value |-> r.value]
  /\ UNCHANGED <<hybridArgs, hybrid, tank, filled, inertia, motor, calls>>

EvaluateCenterOfMass ==
  /\ motor.init # "pending"
  /\ "mass" \in obj.bound \/ obj.solves < MaxSolves
  /\ LET r == evaluateCenterOfMass(motor, obj, tank)
     IN /\ obj' = r.obj
        /\ last' = [op |-> "evaluateCenterOfMass", volume |-> 0,
                    outcome |-> r.outcome, value |-> r.value]
  /\ UNCHANGED <<hybridArgs, hybrid, tank, filled, inertia, motor, calls>>

EvaluateInertiaTensor ==
  /\ motor.init # "pending"
  /\ LET r == evaluateInertiaTensor(motor)
     IN last' = [op |-> "evaluateInertiaTensor", volume |-> 0,
                 outcome |-> r.outcome, value |-> r.value]
  /\ UNCHANGED <<hybridArgs, hybrid, tank, obj, filled, inertia, motor, calls>>

\* The motor with one flat-capped tank of diameter 1.
MotorInit ==
  /\ Init
  /\ tank.diameter = 1
  /\ tank.bottomCap = "flat"
  /\ tank.upperCap = "flat"
  /\ tank.burn_out_time = MaxTime

MotorNext ==
  \/ ConstructLiquidMotor
  \/ \E position \in Positions : AddTank(position)
  \/ EvaluateMassFlowRate
  \/ EvaluateCenterOfMass
  \/ EvaluateInertiaTensor
  \/ AccessNetMassFlowRate
  \/ AccessMass

LiquidMotorSpec == MotorInit /\ [][MotorNext]_vars

\* ------------------------------------------------ HybridMotor actions
\* The tank a caller offers to the hybrid motor.
OxidizerTank ==
  [diameter |-> 1, height |-> 1, bottomCap |-> "flat", upperCap |-> "flat",
   density |-> 1, initial_liquid_mass |-> 4, initial_gas_mass |-> 1,
   liquid_mass_flow_rate_in  |-> Flow(0, MaxTime + 1),
   gas_mass_flow_rate_in     |-> Flow(0, MaxTime + 1),
   liquid_mass_flow_rate_out |-> Flow(2, MaxTime + 1),
   gas_mass_flow_rate_out    |-> Flow(0, MaxTime + 1),
   burn_out_time |-> MaxTime]

HybridInit ==
  /\ tank = OxidizerTank
  /\ obj = NewObject
  /\ filled = [bottomCap |-> 0, cylinder |-> 0, upperCap |-> 0]
  /\ inertia = NoInertia
  /\ motor = NewMotor
  /\ calls = <<>>
  /\ last = NoCall
  /\ hybridArgs \in HybridInputs
  /\ hybrid = NewHybrid(hybridArgs)

ConstructHybridMotor ==
  /\ hybrid.state = "new"
  /\ \E division \in IF propellantInitialMass(hybridArgs) = 0
                     THEN ZeroDivisionOutcomes ELSE {"nan"} :
       LET r == HybridMotorInit(hybridArgs, division)
       IN /\ hybrid' = r.h
          /\ last' = [op |-> "HybridMotor", volume |-> 0,
                      outcome |-> r.outcome, value |-> 0]
  /\ UNCHANGED <<hybridArgs, tank, obj, filled, inertia, motor, calls>>

HybridAddTank(position) ==
  /\ hybrid.state = "constructed"
  /\ Len(calls) < MaxTanks
  /\ LET r == hybridAddTank(hybrid, "tank", position)
     IN /\ hybrid' = r.h
        /\ last' = [op |-> "hybrid.addTank", volume |-> 0,
                    outcome |-> r.outcome, value |-> position]
  /\ calls' = Append(calls, [tank |-> "tank", position |-> position])
  /\ UNCHANGED <<hybridArgs, tank, obj, filled, inertia, motor>>

HybridNext ==
  \/ ConstructHybridMotor
  \/ \E position \in Positions : HybridAddTank(position)

HybridMotorSpec == HybridInit /\ [][HybridNext]_vars

\* ------------------------------------------------ geometryDot alone
\* geometryDot applied at arbitrary states (rI, h) of small grains under
\* small mass flow rates, the rates kept exact.
SmallOuterRadii == 1..4
SmallDensities == {1, 2, 3}
SmallRadii == 0..4
SmallHeights == 0..4
SmallMassDots == (-4)..2

GeometryDotInit ==
  /\ tank = OxidizerTank
  /\ obj = NewObject
  /\ filled = [bottomCap |-> 0, cylinder |-> 0, upperCap |-> 0]
  /\ inertia = NoInertia
  /\ motor = NewMotor
  /\ calls = <<>>
  /\ last = NoCall
  /\ \E n \in GrainNumbers, rho \in SmallDensities, rO \in SmallOuterRadii :
       hybridArgs = [ScenarioArgs EXCEPT !.grainNumber = n,
                                         !.grainDensity = rho,
                                         !.grainOuterRadius = rO]
  /\ hybrid = NewHybrid(hybridArgs)

ApplyGeometryDot(g, r, hh) ==
  /\ last' = [op |-> "geometryDot", volume |-> 0, outcome |-> "ok",
              value |-> [massDot |-> g, rI |-> r, h |-> hh,
                         rates |-> geometryDotRates(hybridArgs, g, r, hh)]]
  /\ UNCHANGED <<hybridArgs, hybrid, tank, obj, filled, inertia, motor, calls>>

GeometryDotNext ==
  \E g \in SmallMassDots, r \in SmallRadii, hh \in SmallHeights :
    ApplyGeometryDot(g, r, hh)

GeometryDotSpec == GeometryDotInit /\ [][GeometryDotNext]_vars

\* ------------------------------------------------------------ claims
FillOps == {"setTankFilling", "centerOfMass", "inertiaTensor"}

\* The last call was a tank query that read the liquid volume at its time.
VolumeRead == last.op \in FillOps /\ last.outcome # "AttributeError"

Segments == {"bottomCap", "cylinder", "upperCap"}

\* C1: whenever a query has read a liquid volume V with 0 <= V <= capacity,
\* setTankFilling has stored a partition of V: the three filled volumes sum to
\* V, the cylinder holds liquid only over a full bottom cap, the upper cap only
\* over a full bottom cap and a full cylinder, and between two flat caps all of
\* V is in the cylinder.
FillPartitionsVolume ==
  LET vol == setTankGeometry(tank)
      V   == last.volume
  IN (VolumeRead /\ 0 <= V /\ V <= Capacity(vol)) =>
       /\ last.outcome # "ValueError"
       /\ filled.bottomCap + filled.cylinder + filled.upperCap = V
       /\ filled.cylinder > 0 => filled.bottomCap = vol.bottomCap
       /\ filled.upperCap > 0 =>
            /\ filled.bottomCap = vol.bottomCap
            /\ filled.cylinder = vol.cylinder
       /\ (tank.bottomCap = "flat" /\ tank.upperCap = "flat") =>
            filled.cylinder = V

\* A setTankFilling call that filled the cylinder and part of the upper cap.
FillReachesUpperCap ==
  /\ last.op = "setTankFilling"
  /\ last.outcome = "ok"
  /\ filled.cylinder > 0
  /\ filled.upperCap > 0
  /\ filled.upperCap < setTankGeometry(tank).upperCap

\* C2: a query that reads a liquid volume above the capacity of the three
\* segments ends in the overfilled ValueError and hands back no value, for
\* setTankFilling, centerOfMass and inertiaTensor alike.
OverfillRaises ==
  (VolumeRead /\ last.volume > Capacity(setTankGeometry(tank))) =>
     /\ last.outcome = "ValueError"
     /\ last.value = 0

\* An inertiaTensor query that met an overfilled tank.
OverfillMet ==
  /\ last.op = "inertiaTensor"
  /\ last.volume > Capacity(setTankGeometry(tank))
  /\ last.outcome = "ValueError"

\* C3: every segment keeps 0 <= filled_volume <= volume, and a negative liquid
\* volume is reported as an error instead of being stored.
SegmentsWithinCapacity ==
  LET vol == setTankGeometry(tank)
  IN /\ \A seg \in Segments : 0 <= filled[seg] /\ filled[seg] <= vol[seg]
     /\ (VolumeRead /\ last.volume < 0) => last.outcome = "ValueError"

\* C4: the integration ends at the first grid time at which the liquid mass is
\* below 5% of initial_liquid_mass, or at burn_out_time, whichever comes first.
StopsAtDepletionOrBurnOut ==
  "mass" \in obj.bound =>
    LET lm == obj.fn.liquid_mass
        T  == LastTime(lm)
        Depleted(k) == 100 * lm[k] < 5 * tank.initial_liquid_mass
    IN /\ T = tank.burn_out_time \/ Depleted(T)
       /\ \A k \in DOMAIN lm : k < T => ~Depleted(k)

\* C5: solve_ivp is not called before the first access of mass, is called at
\* most once over any sequence of accesses, and every access of mass,
\* netMassFlowRate or liquidVolume hands back the cached Function.
LazyAndCachedOnce ==
  /\ last.op = "none" => obj.solves = 0
  /\ obj.solves <= 1
  /\ last.op = "mass" => obj.solves = 1
  /\ last.op \in {"mass", "netMassFlowRate", "liquidVolume"} =>
       /\ last.outcome = "ok"
       /\ last.value = obj.fn[last.op]

\* C6: constructing any of the three tank variants succeeds.
VariantsConstructible ==
  last.op = "construct" => last.outcome = "ok"

\* C7: once computed, netMassFlowRate(t) is (liquid in - liquid out) + (gas in
\* - gas out) at every grid time t, and that is what an access hands back.
NetMassFlowRateIsInMinusOut ==
  LET expected(t) ==
        (FunctionValue(tank.liquid_mass_flow_rate_in, t)
           - FunctionValue(tank.liquid_mass_flow_rate_out, t))
        + (FunctionValue(tank.gas_mass_flow_rate_in, t)
           - FunctionValue(tank.gas_mass_flow_rate_out, t))
  IN /\ "netMassFlowRate" \in obj.bound =>
          \A t \in Times : obj.fn.netMassFlowRate[t] = expected(t)
     /\ last.op = "netMassFlowRate" =>
          /\ last.outcome = "ok"
          /\ \A t \in Times : last.value[t] = expected(t)

\* An access of netMassFlowRate on a tank that loses liquid and gas while the
\* flow curves last and nothing after they end.
NetMassFlowRateSeen ==
  /\ last.op = "netMassFlowRate"
  /\ last.value[0] < -1
  /\ last.value[MaxTime] = 0
  /\ tank.gas_mass_flow_rate_out.value > 0

\* The net mass flow accumulated over the grid steps before time k.
RECURSIVE AccumulatedFlow(_, _)
AccumulatedFlow(net, k) ==
  IF k = 0 THEN 0 ELSE AccumulatedFlow(net, k - 1) + net[k - 1]

\* C8: at every sample time k of the integration window the total mass is the
\* initial liquid and gas mass plus the net mass flow accumulated from 0 to k.
MassConservation ==
  "mass" \in obj.bound =>
    \A k \in DOMAIN obj.fn.mass :
      obj.fn.mass[k] = tank.initial_liquid_mass + tank.initial_gas_mass
                         + AccumulatedFlow(obj.fn.netMassFlowRate, k)

\* A computed mass curve over at least two steps that ends below its start,
\* liquid and gas both having left the tank.
MassCurveSeen ==
  /\ last.op = "mass"
  /\ last.outcome = "ok"
  /\ LastTime(obj.fn.mass) >= 2
  /\ obj.fn.gas_mass[LastTime(obj.fn.mass)] < tank.initial_gas_mass
  /\ obj.fn.liquid_mass[LastTime(obj.fn.mass)] < tank.initial_liquid_mass

\* The sum of the positions of the entries of a tank list.
RECURSIVE SumOfPositions(_)
SumOfPositions(cs) ==
  IF cs = <<>> THEN 0 ELSE cs[1].position + SumOfPositions(Tail(cs))

\* C9: for the tanks passed to addTank, of non-zero total mass,
\* evaluateCenterOfMass returns sum(m_i * (p_i + c_i)) / sum(m_i) with the
\* positions supplied; all entries being the one tank of mass m and center c,
\* that is c + sum(p_i) / n.
CenterOfMassIsWeightedAverage ==
  (/\ last.op = "evaluateCenterOfMass"
   /\ calls # <<>>
   /\ tank.initial_liquid_mass + tank.initial_gas_mass > 0) =>
     /\ last.outcome = "ok"
     /\ last.value = [tankCenterOfMass |-> "tank",
                      offset |-> <<SumOfPositions(calls), Len(calls)>>]

\* C10: evaluateMassFlowRate returns the sum of netMassFlowRate over the tanks
\* passed to addTank, one term per call, and 0 when there is none.
MassFlowRateIsSum ==
  last.op = "evaluateMassFlowRate" =>
    /\ last.outcome = "ok"
    /\ last.value = IF calls = <<>> THEN 0
                    ELSE SumOfCopies(netMassFlowRateBody(tank).netMassFlowRate,
                                     Len(calls))

\* C11: a centerOfMass query that reads a liquid volume V with 0 < V <=
\* capacity returns the quotient whose numerator weights the filled centroid
\* of each segment by that segment's share of V and whose denominator is the
\* whole of V: coefficient_i / denominator = V_i / (V_b + V_c + V_u), the V's
\* being the fill partition of V (the liquid density cancels).
CenterOfMassIsVolumeWeighted ==
  LET V == last.volume
  IN (/\ last.op = "centerOfMass"
      /\ last.outcome # "AttributeError"
      /\ 0 < V
      /\ V <= Capacity(setTankGeometry(tank))) =>
       /\ last.outcome = "ok"
       /\ last.value.denominator # 0
       /\ filled.bottomCap + filled.cylinder + filled.upperCap = V
       /\ \A seg \in Segments :
            last.value.numerator[seg] * V = filled[seg] * last.value.denominator

\* A centerOfMass query on liquid of density 2 that fills the bottom cap and
\* part of the cylinder.
CenterOfMassOverTwoSegments ==
  /\ last.op = "centerOfMass"
  /\ last.outcome = "ok"
  /\ tank.density = 2
  /\ filled.bottomCap > 0
  /\ filled.cylinder > 0
  /\ filled.cylinder < setTankGeometry(tank).cylinder

\* The sum of the squared positions of the entries of a tank list.
RECURSIVE SumOfSquaredPositions(_)
SumOfSquaredPositions(cs) ==
  IF cs = <<>> THEN 0
  ELSE cs[1].position * cs[1].position + SumOfSquaredPositions(Tail(cs))

\* C12: evaluateInertiaTensor returns the sum over the tanks passed to addTank
\* of the tank's own inertia plus m * dz^2, dz being the offset of the tank's
\* center of mass from the combined one.  All n entries being the one tank of
\* mass m, that is n times the tank's own inertia plus m times
\* sum((p_i - mean(p))^2) = (n * sum(p_i^2) - sum(p_i)^2) / n.
InertiaIsParallelAxisSum ==
  last.op = "evaluateInertiaTensor" =>
    /\ last.outcome = "ok"
    /\ last.value # "None"
    /\ last.value =
         [ownInertiaTerms |-> Len(calls),
          massTimes |-> <<Len(calls) * SumOfSquaredPositions(calls)
                            - SumOfPositions(calls) * SumOfPositions(calls),
                          Len(calls)>>]

\* C19: an access of mass, netMassFlowRate or liquidVolume, or a query
\* centerOfMass(t) or inertiaTensor(t), never fails for want of a quantity
\* that another access would have computed, whatever was accessed before.
AccessOrderIndependent ==
  last.op \in {"mass", "netMassFlowRate", "liquidVolume", "centerOfMass",
               "inertiaTensor"} =>
    last.outcome # "AttributeError"

\* The total mass flow rate less the liquid mass flow rate of the offered
\* tank.
TotalMinusLiquid ==
  LET liquid(t) == FunctionValue(tank.liquid_mass_flow_rate_in, t)
                     - FunctionValue(tank.liquid_mass_flow_rate_out, t)
  IN [t \in Grid |-> evaluateMassDot(hybrid, hybridArgs)[t] - liquid(t)]

\* C13: addTank on a constructed hybrid motor succeeds, and afterwards the
\* mass flow rate the grain burnback is computed from is the total mass flow
\* rate minus the liquid mass flow rate, with the grain geometry derived from
\* it, as for a motor built with the tank from the start.
AddTankRecomputesGrainFlow ==
  last.op = "hybrid.addTank" =>
    /\ last.outcome = "ok"
    /\ hybrid.massDot = TotalMinusLiquid
    /\ hybrid.grainInnerRadius =
         evaluateGeometry([hybrid EXCEPT !.massDot = TotalMinusLiquid],
                          hybridArgs).grainInnerRadius

\* C14: the center of mass of a constructed hybrid motor is a curve over the
\* time grid, the mass-weighted average of the grain assembly's center of mass
\* and the oxidizer tank's; measured from the grain assembly's center, at t = 0
\* that is oxidizer mass * distanceGrainToTank / propellantInitialMass.
HybridCenterOfMassIsWeightedAverage ==
  hybrid.state = "constructed" =>
    /\ hybrid.zCM # 0
    /\ DOMAIN hybrid.zCM = Grid
    /\ hybrid.zCM[0] =
         <<hybridArgs.oxidizerInitialVolume * hybridArgs.oxidizerDensity
             * hybridArgs.distanceGrainToTank,
           propellantInitialMass(hybridArgs)>>

\* Zero or negative grain radii, or an inner radius not below the outer one.
InvalidGrainGeometry(a) ==
  \/ a.grainOuterRadius <= 0
  \/ a.grainInitialInnerRadius <= 0
  \/ a.grainInitialInnerRadius >= a.grainOuterRadius

\* C15: constructing a HybridMotor with an invalid grain geometry ends in an
\* error and leaves no constructed motor.
InvalidGeometryRejected ==
  (last.op = "HybridMotor" /\ InvalidGrainGeometry(hybridArgs)) =>
    /\ last.outcome # "ok"
    /\ hybrid.state # "constructed"

\* C16: a constructed hybrid motor carries the orientation its caller
\* declared.
OrientationCarried ==
  hybrid.state = "constructed" =>
    hybrid.coordinateSystemOrientation
      = hybridArgs.coordinateSystemOrientation

\* The mass flow rate is negative at every grid time and the bracket
\* rO^2 - r^2 + r * h is positive at every sample of the grain geometry.
BurningThroughout ==
  /\ hybrid.state = "constructed"
  /\ \A t \in Grid : hybrid.massDot[t] < 0
  /\ \A t \in Grid :
       /\ hybrid.grainInnerRadius[t].finite
       /\ hybrid.grainHeight[t].finite
       /\ BurnBracket(hybridArgs, hybrid.grainInnerRadius[t].v,
                      hybrid.grainHeight[t].v) > 0

\* C17: while propellant leaves at every grid time and the bracket stays
\* positive, the inner radius never decreases and the height never increases
\* from one grid time to the next, and at the end of the grid the inner radius
\* is above r0 and the height below h0.
BurnbackDirection ==
  BurningThroughout =>
    /\ \A t \in Grid \ {MaxGrid} :
         /\ hybrid.grainInnerRadius[t + 1].v >= hybrid.grainInnerRadius[t].v
         /\ hybrid.grainHeight[t + 1].v <= hybrid.grainHeight[t].v
    /\ hybrid.grainInnerRadius[MaxGrid].v
         > hybridArgs.grainInitialInnerRadius
    /\ hybrid.grainHeight[MaxGrid].v < hybridArgs.grainInitialHeight

\* A constructed motor of valid geometry that burns throughout, the grain
\* bored out by more than ten length units.
BurnbackSeen ==
  /\ BurningThroughout
  /\ ~InvalidGrainGeometry(hybridArgs)
  /\ hybrid.grainInnerRadius[MaxGrid].v
       > hybridArgs.grainInitialInnerRadius + 10

\* C18: grainInnerRadius and grainHeight hold exactly one sample for each
\* sample time of massDot, also when the grain has burnt through before the
\* last grid time.
GeometryCoversGrid ==
  "grainInnerRadius" \in hybrid.set =>
    /\ DOMAIN hybrid.grainInnerRadius = DOMAIN hybrid.massDot
    /\ DOMAIN hybrid.grainHeight = DOMAIN hybrid.massDot
    /\ DOMAIN hybrid.massDot = Grid

\* A constructed motor whose grain had burnt through before the last grid
\* time.
BurntThroughBeforeEnd ==
  /\ hybrid.state = "constructed"
  /\ \E t \in Grid \ {MaxGrid} :
       /\ hybrid.grainInnerRadius[t].finite
       /\ hybrid.grainHeight[t].finite
       /\ BurntThrough(hybridArgs, hybrid.grainInnerRadius[t].v,
                       hybrid.grainHeight[t].v)

\* C20: the constructor computes massDot, mass, the grain geometry (inner
\* radius and height, burn area, Kn, burn rate), the inertia and the center of
\* mass in this order, and no step fails on a quantity that is still None or
\* not bound yet.
ConstructionInDependencyOrder ==
  LET claimed == <<"evaluateMassDot", "evaluateMass", "evaluateGeometry",
                   "evaluateBurnArea", "evaluateKn", "evaluateBurnRate",
                   "evaluateInertia", "evaluateCenterOfMass">>
  IN last.op = "HybridMotor" =>
       /\ last.outcome \notin {"TypeError", "AttributeError"}
       /\ Len(hybrid.order) <= Len(claimed)
       /\ \A k \in 1..Len(hybrid.order) : hybrid.order[k] = claimed[k]
       /\ last.outcome = "ok" =>
            /\ hybrid.order = claimed
            /\ NonePlaceholders \ {"oxidizerInitialMass"} \subseteq hybrid.set

\* A construction that ran every step and left a finite inertia at the end of
\* the grid.
ConstructionCompleted ==
  /\ last.op = "HybridMotor"
  /\ last.outcome = "ok"
  /\ Len(hybrid.order) = 8
  /\ hybrid.inertiaI[MaxGrid].finite
  /\ hybrid.inertiaI[MaxGrid].v.shape > 0

\* C21: a successful inertiaTensor query returns, for the liquid of mass m and
\* filled height h in the cylinder of radius r = diameter / 2, the transverse
\* moment m * r^2 / 4 + m * h^2 / 12 and the axial moment 0.  With m = m2 / 2
\* and h = h1 / h2 the transverse moment is the fraction
\* m2 * (3 * d^2 * h2^2 + 4 * h1^2) / (96 * h2^2); both sides are compared
\* over that denominator.
InertiaIsSolidCylinder ==
  (last.op = "inertiaTensor" /\ last.outcome = "ok") =>
    LET h  == filled_height(tank, filled)
        m2 == SegmentMass2(tank.density, filled.cylinder)
        d  == tank.diameter
    IN /\ 4 * last.value.inertiaI[2] = 96 * h[2] * h[2]
       /\ 4 * last.value.inertiaI[1]
            = m2 * (3 * d * d * h[2] * h[2] + 4 * h[1] * h[1])
       /\ last.value.inertiaZ = 0

\* C22: at every state (r, h) with rO^2 - r^2 + r * h > 0 the rates returned
\* by geometryDot conserve mass: the grain density times the rate of change of
\* the grain volume pi * (rO^2 - r^2) * h, which is
\* -2 * r * h * rIDot + (rO^2 - r^2) * hDot in units of pi, equals
\* massDot / grainNumber.  The equation is cleared of its denominators.
BurnbackConservesMass ==
  last.op = "geometryDot" =>
    LET v  == last.value
        a  == hybridArgs
        rn == v.rates.rIDot.num
        rd == v.rates.rIDot.den
        hn == v.rates.hDot.num
        hd == v.rates.hDot.den
        rO == a.grainOuterRadius
    IN BurnBracket(a, v.rI, v.h) > 0 =>
         a.grainNumber * a.grainDensity
             * (-2 * v.rI * v.h * rn * hd + (rO * rO - v.rI * v.rI) * hn * rd)
           = v.massDot * rd * hd

\* geometryDot applied to a burning grain with a bore and a height.
BurningGrainState ==
  /\ last.op = "geometryDot"
  /\ last.value.massDot < 0
  /\ last.value.rI > 0
  /\ last.value.rI < hybridArgs.grainOuterRadius
  /\ last.value.h > 0
  /\ hybridArgs.grainNumber = 2

\* C23: every sample of liquid_mass the integration produces is >= 0, and so
\* is every sample of liquidVolume.
LiquidMassNeverNegative ==
  /\ "mass" \in obj.bound =>
       \A k \in DOMAIN obj.fn.liquid_mass : obj.fn.liquid_mass[k] >= 0
  /\ (VolumeRead /\ last.outcome = "ok") => last.volume >= 0

\* C24: centerOfMass(t) hands back a value at every liquid volume within
\* 0 <= V <= capacity, the empty tank included, with no division by zero.
CenterOfMassOnValidDomain ==
  (/\ last.op = "centerOfMass"
   /\ last.outcome # "AttributeError"
   /\ 0 <= last.volume
   /\ last.volume <= Capacity(setTankGeometry(tank))) =>
     /\ last.outcome = "ok"
     /\ last.value.denominator # 0

\* Fill states an earlier query can have left behind: empty, bottom cap only,
\* bottom cap and cylinder, full.
EarlierFills ==
  LET vol == setTankGeometry(tank)
  IN {[bottomCap |-> 0, cylinder |-> 0, upperCap |-> 0],
      [bottomCap |-> vol.bottomCap, cylinder |-> 0, upperCap |-> 0],
      [bottomCap |-> vol.bottomCap, cylinder |-> vol.cylinder, upperCap |-> 0],
      vol}

\* C25: after a query that read the liquid volume V and stored a partition,
\* the filled volumes and the value handed back are those computed from V
\* whatever the segments held before the call: nothing of an earlier query is
\* left in any of the three segments.
QueriesHistoryIndependent ==
  (VolumeRead /\ last.outcome # "ValueError") =>
    \A old \in EarlierFills :
      LET fl == FillSegments(last.volume, setTankGeometry(tank), old).filled
      IN /\ filled = fl
         /\ (last.op = "centerOfMass" /\ last.outcome = "ok") =>
              last.value = centerOfMassValue(centerOfMassWeights(tank, fl))
         /\ last.op = "inertiaTensor" =>
              last.value = inertiaTensorValue(tank, fl)

\* A centerOfMass query that left the upper cap empty, made after an
\* inertiaTensor query that met another fill of the cylinder.
QueryAfterFullerQuery ==
  /\ last.op = "centerOfMass"
  /\ last.outcome = "ok"
  /\ filled.upperCap = 0
  /\ setTankGeometry(tank).upperCap > 0
  /\ inertia.bound
  /\ inertia.inertiaI # inertiaTensorValue(tank, filled).inertiaI

\* C26: a step in which setTankFilling, called directly or by centerOfMass or
\* inertiaTensor, ends in the overfilled ValueError leaves the filled volumes
\* of bottomCap, cylinder and upperCap as they were before the call.
OverfillLeavesSegments ==
  [][(last'.op \in FillOps /\ last'.outcome = "ValueError")
       => filled' = filled]_vars

\* setTankFilling raised on an overfilled tank whose segments hold the
\* partly filled cylinder of an earlier query.
OverfillAfterPartialFill ==
  /\ last.op = "setTankFilling"
  /\ last.outcome = "ValueError"
  /\ filled.cylinder > 0
  /\ filled.cylinder < setTankGeometry(tank).cylinder

\* C27: a constructed LiquidMotor has a tank list, empty before the first
\* addTank, and every addTank(tank, position) succeeds and appends its entry:
\* the list is at all times the sequence of the (tank, position) pairs passed
\* so far, in call order.
TankListIsAppendOnly ==
  /\ last.op = "LiquidMotor" =>
       /\ last.outcome = "ok"
       /\ motor.tanksBound
       /\ motor.tanks = <<>>
  /\ last.op = "addTank" => last.outcome = "ok"
  /\ motor.init # "pending" =>
       /\ motor.tanksBound
       /\ motor.tanks = calls

=============================================================================
